---- MODULE Spec2Model ----
(***************************************************************************)
(* MakeLazy.h: a by-reference container wrapper (Lazy::Container) whose     *)
(* operators build move-only expression nodes (detail::BinaryExpression)    *)
(* that are evaluated index by index when assigned to a wrapper.            *)
(*                                                                         *)
(* Element values are either an unsigned integer type of Width bits        *)
(* ("uint", arithmetic modulo 2^Width), text ("text": std::string as in     *)
(* Test.cpp, a sequence of character codes) or bool ("bool"; a collection   *)
(* of bool is a std::vector<bool>, whose operator[] returns a proxy).       *)
(***************************************************************************)
EXTENDS Integers, Sequences, FiniteSets, TLC

VARIABLES
    cols,    \* the caller's collections: name -> sequence of elements
    ctype,   \* the element type (value_type) of each collection
    src,     \* the expression of the statement as the caller wrote it
    expr,    \* the expression node the operators built from it
    stmt,    \* the materializing statement in progress
    pc,      \* "idle", "loop", "done", "crashed" or "ill_formed"
    i,       \* the loop variable of the materialization loop
    old,     \* the collections as they were when the statement started
    ub,      \* TRUE once the execution had undefined behaviour
    oob,     \* TRUE once an element was accessed at an index >= size()
    call,    \* the last call of apply made by the root node: arguments, result
    trace,   \* the element accesses made so far, one entry per evaluation
    temps,   \* the element values constructed by the last loop iteration
    sub      \* the last use of a wrapper's operator [] by the caller

vars == <<cols, ctype, src, expr, stmt, pc, i, old, ub, oob, call, trace, temps, sub>>

---------------------------------------------------------------------------
(* Bounds of the model. *)

\* bits of the unsigned element type
Width == 10
\* largest size() of a collection
MaxLen == 2
\* initial element values are runs starting in 0..MaxVal, or at the largest value
MaxVal == 1
\* largest number of operators in an expression chain
MaxOps == 2

Modulus == 2 ^ Width

Names == {"a", "b", "c", "d"}

---------------------------------------------------------------------------
(* The element type's own operators: built-in arithmetic on unsigned and   *)
(* on bool, and std::string's + += == != < <= > >=.                        *)

RECURSIVE BitWise(_, _, _, _)
BitWise(f, a, b, n) ==
    IF n = 0 THEN 0
    ELSE LET x == a % 2
             y == b % 2
             bit == CASE f = "and" -> IF x = 1 /\ y = 1 THEN 1 ELSE 0
                      [] f = "or"  -> IF x = 1 \/ y = 1 THEN 1 ELSE 0
                      [] f = "xor" -> IF x # y THEN 1 ELSE 0
         IN  bit + 2 * BitWise(f, a \div 2, b \div 2, n - 1)

\* conversion of a bool to an integer: true is 1, false is 0
BoolToElem(v) == IF v THEN 1 ELSE 0

\* a division by zero and a shift by Width or more bits are undefined (bool
\* operands are promoted to int, which shifts by 0 or 1 bit)
ElemDefined(T, op, a, b) ==
    CASE op \in {"/", "/="}                 -> IF T = "bool" THEN b ELSE b # 0
      [] op \in {"<<", ">>", "<<=", ">>="}  -> T = "bool" \/ b < Width
      [] OTHER                              -> TRUE

\* std::string's operator <: lexicographic on the character codes
RECURSIVE TextLess(_, _)
TextLess(a, b) ==
    IF b = <<>> THEN FALSE
    ELSE IF a = <<>> THEN TRUE
    ELSE IF Head(a) # Head(b) THEN Head(a) < Head(b)
    ELSE TextLess(Tail(a), Tail(b))

\* a xi_operator b on two std::string
TextBinary(op, a, b) ==
    CASE op = "+"  -> a \o b
      [] op = "==" -> a = b
      [] op = "!=" -> a # b
      [] op = "<"  -> TextLess(a, b)
      [] op = "<=" -> ~TextLess(b, a)
      [] op = ">"  -> TextLess(b, a)
      [] op = ">=" -> ~TextLess(a, b)

\* the operators whose result has the type of the operands
ArithSymbols == {"+", "-", "*", "/", "|", "&", "^", "<<", ">>"}

\* a xi_operator b on two elements of type T
RECURSIVE ElemBinary(_, _, _, _)
ElemBinary(T, op, a, b) ==
    IF T = "text" THEN TextBinary(op, a, b)
    ELSE IF T = "bool"
    THEN \* the operands are promoted; an arithmetic result converts back to bool
         IF op \in ArithSymbols
         THEN ElemBinary("uint", op, BoolToElem(a), BoolToElem(b)) # 0
         ELSE ElemBinary("uint", op, BoolToElem(a), BoolToElem(b))
    ELSE CASE op = "+"  -> (a + b) % Modulus
           [] op = "-"  -> (a - b) % Modulus
           [] op = "*"  -> (a * b) % Modulus
           [] op = "/"  -> a \div b
           [] op = "|"  -> BitWise("or", a, b, Width)
           [] op = "&"  -> BitWise("and", a, b, Width)
           [] op = "^"  -> BitWise("xor", a, b, Width)
           [] op = "<<" -> (a * (2 ^ b)) % Modulus
           [] op = ">>" -> a \div (2 ^ b)
           [] op = "&&" -> (a # 0) /\ (b # 0)
           [] op = "||" -> (a # 0) \/ (b # 0)
           [] op = "==" -> a = b
           [] op = "!=" -> a # b
           [] op = "<"  -> a < b
           [] op = "<=" -> a <= b
           [] op = ">"  -> a > b
           [] op = ">=" -> a >= b

\* the binary operator a compound assignment operator applies
BinaryOf(aop) ==
    CASE aop = "+="  -> "+"
      [] aop = "-="  -> "-"
      [] aop = "*="  -> "*"
      [] aop = "/="  -> "/"
      [] aop = "|="  -> "|"
      [] aop = "&="  -> "&"
      [] aop = "^="  -> "^"
      [] aop = "<<=" -> "<<"
      [] aop = ">>=" -> ">>"

\* a xi_assign_operator b: the value a holds afterwards
ElemCompound(T, aop, a, b) == ElemBinary(T, BinaryOf(aop), a, b)

\* conversion between element types, as the C++ implicit conversions do it;
\* to text: std::string's operator =(char) and operator +=(char) take the
\* value converted to a char, one character
Convert(v, from, to) ==
    CASE from = to                     -> v
      [] from = "bool" /\ to = "uint"  -> BoolToElem(v)
      [] from = "uint" /\ to = "bool"  -> v # 0
      [] from = "bool" /\ to = "text"  -> <<BoolToElem(v)>>
      [] from = "uint" /\ to = "text"  -> <<v % (2 ^ 8)>>

\* The value an undefined read or operation leaves is indeterminate.  An
\* indeterminate unsigned or text value is kept as a mark that stands for
\* every value of the type; an indeterminate bool is either value, g.
Indeterminate(T, g) ==
    CASE T = "uint" -> -1
      [] T = "text" -> <<-1>>
      [] T = "bool" -> g

IsIndeterminate(T, v) ==
    CASE T = "uint" -> v = -1
      [] T = "text" -> v = <<-1>>
      [] OTHER      -> FALSE

\* a conversion of a value that may be indeterminate
ConvertValue(v, from, to, g) ==
    IF IsIndeterminate(from, v) THEN Indeterminate(to, g) ELSE Convert(v, from, to)

\* what an object holds once its value was moved out of it: a std::string is
\* left empty, a built-in value as it was
MovedFrom(T, v) == IF T = "text" THEN <<>> ELSE v

---------------------------------------------------------------------------
(* detail::BinaryOperations: the operation tags. *)

ArithTags == {"ADD", "SUB", "MUL", "DIV", "LOR", "LAND", "LXOR", "SHL", "SHR"}
RelTags == {"AND", "OR", "EQ", "NEQ", "LT", "LE", "GT", "GE"}
Tags == ArithTags \cup RelTags

\* xi_operator of each CREATE_BINARY_OPERATION line
TagOperator(tag) ==
    CASE tag = "ADD"  -> "+"
      [] tag = "SUB"  -> "-"
      [] tag = "MUL"  -> "*"
      [] tag = "DIV"  -> "/"
      [] tag = "LOR"  -> "|"
      [] tag = "LAND" -> "&"
      [] tag = "LXOR" -> "^"
      [] tag = "SHL"  -> "<<"
      [] tag = "SHR"  -> ">>"
      [] tag = "AND"  -> "&&"
      [] tag = "OR"   -> "||"
      [] tag = "EQ"   -> "=="
      [] tag = "NEQ"  -> "!="
      [] tag = "LT"   -> "<"
      [] tag = "LE"   -> "<="
      [] tag = "GT"   -> ">"
      [] tag = "GE"   -> ">="

\* xi_assign_operator of each arithmetic CREATE_BINARY_OPERATION line
TagAssignOperator(tag) ==
    CASE tag = "ADD"  -> "+="
      [] tag = "SUB"  -> "-="
      [] tag = "MUL"  -> "*="
      [] tag = "DIV"  -> "/="
      [] tag = "LOR"  -> "|="
      [] tag = "LAND" -> "&="
      [] tag = "LXOR" -> "^="
      [] tag = "SHL"  -> "<<="
      [] tag = "SHR"  -> ">>="

\* The four overloads of apply, named by how each parameter is taken:
\* "c" for const T&, "r" for T&&.
Overloads == {"cc", "rc", "cr", "rr"}

\* overload resolution: an rvalue argument binds to T&&, an lvalue to const T&
Overload(catL, catR) ==
    (IF catL = "lvalue" THEN "c" ELSE "r") \o (IF catR = "lvalue" THEN "c" ELSE "r")

\* whether the element operation the overload performs is defined
applyDefined(T, tag, ov, a, b) ==
    IF tag \in ArithTags /\ ov = "cr"
    THEN ElemDefined(T, TagAssignOperator(tag), b, a)
    ELSE ElemDefined(T, TagOperator(tag), a, b)

\* apply with the body of the (const T&, T&&) overload in every in-place
\* overload: b op= a; return b
applyReversed(T, tag, ov, a, b) ==
    IF tag \in ArithTags /\ ov # "cc"
    THEN LET b2 == ElemCompound(T, TagAssignOperator(tag), b, a)
         IN  [ret |-> b2, a |-> a, b |-> MovedFrom(T, b2)]
    ELSE [ret |-> ElemBinary(T, TagOperator(tag), a, b), a |-> a, b |-> b]

\* Tag<T>::apply(a, b) through overload ov: the value returned (ret) and the
\* values the objects bound to a and b hold when it returns.  The in-place
\* overloads return std::move(a) or std::move(b): the argument is moved from.
apply(T, tag, ov, a, b) ==
    IF tag \in ArithTags
    THEN CASE ov = "cc" ->
                [ret |-> ElemBinary(T, TagOperator(tag), a, b), a |-> a, b |-> b]
           [] ov = "rc" ->
                LET a2 == ElemCompound(T, TagAssignOperator(tag), a, b)
                IN  [ret |-> a2, a |-> MovedFrom(T, a2), b |-> b]
           [] ov = "cr" ->
                LET b2 == ElemCompound(T, TagAssignOperator(tag), b, a)
                IN  [ret |-> b2, a |-> a, b |-> MovedFrom(T, b2)]
           [] ov = "rr" ->
                LET a2 == ElemCompound(T, TagAssignOperator(tag), a, b)
                IN  [ret |-> a2, a |-> MovedFrom(T, a2), b |-> b]
    ELSE [ret |-> ElemBinary(T, TagOperator(tag), a, b), a |-> a, b |-> b]

\* element values apply constructs: a xi_operator b makes the result anew
applyCopies(tag, ov) == IF tag \in ArithTags /\ ov = "cc" THEN 1 ELSE 0

\* element values apply move-constructs: return std::move(a) / std::move(b)
applyMoves(tag, ov) == IF tag \in ArithTags /\ ov # "cc" THEN 1 ELSE 0

\* the type of the value apply returns: T for the arithmetic tags, bool otherwise
ResultType(T, tag) == IF tag \in ArithTags THEN T ELSE "bool"

---------------------------------------------------------------------------
(* Operands and expression nodes. *)

\* a Lazy::Container bound to collection x
Wrapper(x) == [k |-> "wrap", col |-> x]
\* collection x itself, used as an operand
Raw(x) == [k |-> "raw", col |-> x]
\* BinaryExpression<LeftExpr, tag<T>, RightExpr>(l, r)
BinaryExpression(tag, T, l, r) == [k |-> "node", tag |-> tag, T |-> T, l |-> l, r |-> r]
\* no expression
None == [k |-> "none"]
\* an expression the compiler rejects
IllFormed == [k |-> "ill_formed"]

\* the number of operators of an expression
RECURSIVE OpCount(_)
OpCount(e) == IF e.k = "node" THEN 1 + OpCount(e.l) + OpCount(e.r) ELSE 0

\* the collections at the leaves of an expression
RECURSIVE Leaves(_)
Leaves(e) ==
    IF e.k = "node" THEN Leaves(e.l) \cup Leaves(e.r)
    ELSE IF e.k \in {"wrap", "raw"} THEN {e.col} ELSE {}

\* no call of apply yet
NoCall == [tag |-> "none"]

\* where an operand value lives: an element of a collection, or a temporary
Temporary == [col |-> "temporary", idx |-> 0]
Element(x, n) == [col |-> x, idx |-> n]

\* an object written through a reference: only elements of collections persist
WriteBack(loc, v, cs) ==
    IF loc.col \in Names /\ loc.idx < Len(cs[loc.col])
    THEN [cs EXCEPT ![loc.col][loc.idx + 1] = v]
    ELSE cs

\* an access to element n of collection x: kind is "read", "write" or
\* "update" (read and write by a compound assignment); leaf is the position
\* in the expression tree of the operand that makes it ("" at the operand
\* itself, then "l" or "r" for each node above it), or "dest", or "caller";
\* times is how often the access is made
Access(kind, x, n, leaf) ==
    [kind |-> kind, col |-> x, idx |-> n, leaf |-> leaf, times |-> 1]

\* the accesses of an operand, seen from the node whose side operand it is
Relabel(side, acc) == {[t EXCEPT !.leaf = side \o @] : t \in acc}

\* what the collection's operator[] returns: a reference to the element,
\* or, for std::vector<bool>, a proxy object that refers to it
ReferenceCategory(T) == IF T = "bool" THEN "proxy" ELSE "lvalue"

\* a checked access that yields a value-initialized element past the end
CollectionIndexClamped(x, n, cs, g) ==
    IF n < Len(cs[x])
    THEN [val |-> cs[x][n + 1], ty |-> ctype[x], cat |-> ReferenceCategory(ctype[x]),
          loc |-> Element(x, n), cs |-> cs, ub |-> FALSE, oob |-> FALSE,
          acc |-> {}, pend |-> {Access("read", x, n, "")}, crash |-> {},
          tmp |-> 0, mv |-> 0]
    ELSE [val |-> 0, ty |-> ctype[x], cat |-> ReferenceCategory(ctype[x]),
          loc |-> Temporary, cs |-> cs, ub |-> FALSE, oob |-> FALSE,
          acc |-> {}, pend |-> {}, crash |-> {}, tmp |-> 0, mv |-> 0]

\* the collection's own operator[]: a reference to element n, unchecked;
\* past the end the access is undefined and what it reads is indeterminate.
\* Nothing is read yet (acc): the element is read by whoever uses the
\* reference (pend).  crash holds the sets of accesses after which the
\* evaluation may have ended the program.
CollectionIndex(x, n, cs, g) ==
    IF n < Len(cs[x])
    THEN [val |-> cs[x][n + 1], ty |-> ctype[x], cat |-> ReferenceCategory(ctype[x]),
          loc |-> Element(x, n), cs |-> cs, ub |-> FALSE, oob |-> FALSE,
          acc |-> {}, pend |-> {Access("read", x, n, "")}, crash |-> {},
          tmp |-> 0, mv |-> 0]
    ELSE [val |-> Indeterminate(ctype[x], g), ty |-> ctype[x],
          cat |-> ReferenceCategory(ctype[x]),
          loc |-> Temporary, cs |-> cs, ub |-> TRUE, oob |-> TRUE,
          acc |-> {}, pend |-> {Access("read", x, n, "")}, crash |-> {},
          tmp |-> 0, mv |-> 0]

\* operator[] returning std::move(m_container[n]): the element itself, as an
\* rvalue
ContainerIndexMove(x, n, cs, g) ==
    [CollectionIndex(x, n, cs, g) EXCEPT !.cat = "xvalue"]

\* operator[] that tests the element before it returns a copy of it:
\* if (m_container[n] == T{}) ...; return m_container[n]
ContainerIndexTwice(x, n, cs, g) ==
    LET r == CollectionIndex(x, n, cs, g)
    IN  [r EXCEPT !.cat = "prvalue", !.loc = Temporary,
                  !.acc = {[t EXCEPT !.times = 2] : t \in r.pend},
                  !.pend = {}, !.crash = IF r.ub THEN {r.pend} ELSE {}, !.tmp = 1]

\* Container::operator[]: declared auto, so it returns a copy of
\* m_container[n]: the element is read and one element value is constructed
\* (past the end, the program may end at that read).  The copy of a proxy is
\* a proxy of the same element.
ContainerIndex(x, n, cs, g) ==
    LET r == CollectionIndex(x, n, cs, g)
    IN  IF r.cat = "proxy" THEN r
        ELSE [r EXCEPT !.cat = "prvalue", !.loc = Temporary,
                       !.acc = r.pend, !.pend = {},
                       !.crash = IF r.ub THEN {r.pend} ELSE {}, !.tmp = 1]

\* Every operand and every node of an expression has a position: "" for
\* the root, then "l" or "r" for each step down.  g gives, for the positions
\* that need one, the value an indeterminate bool takes there, so that two
\* indeterminate bools of one evaluation are independent.
Pick(g, path) == IF path \in DOMAIN g THEN g[path] ELSE FALSE

\* the values for a node at a position and for its two operands
Draw(g, path) ==
    [here |-> Pick(g, path), l |-> Pick(g, path \o "l"), r |-> Pick(g, path \o "r")]

\* BinaryExpression::operator[] and the operand indexing it performs
RECURSIVE BinaryExpressionIndexAt(_, _, _, _, _)
OperandIndex(e, n, cs, g, path) ==
    CASE e.k = "wrap" -> ContainerIndex(e.col, n, cs, Pick(g, path))
      [] e.k = "raw"  -> CollectionIndex(e.col, n, cs, Pick(g, path))
      [] e.k = "node" -> BinaryExpressionIndexAt(e, n, cs, g, path)

\* BinaryOp::apply(L, R) on the two indexed operands of node e.  The two
\* operands are indexed in either order and the elements they refer to are
\* read inside apply: the accesses of one evaluation are a set, not a
\* sequence.  d holds the values indeterminate bools take (Draw).
BinaryExpressionApply(e, L, R, d) ==
    LET \* an operand of another type, and a proxy, is converted to a temporary T
        Lsame == L.ty = e.T /\ L.cat # "proxy"
        Rsame == R.ty = e.T /\ R.cat # "proxy"
        La == ConvertValue(L.val, L.ty, e.T, d.l)
        Ra == ConvertValue(R.val, R.ty, e.T, d.r)
        Lcat == IF Lsame THEN L.cat ELSE "prvalue"
        Rcat == IF Rsame THEN R.cat ELSE "prvalue"
        Lloc == IF Lsame THEN L.loc ELSE Temporary
        Rloc == IF Rsame THEN R.loc ELSE Temporary
        ov == Overload(Lcat, Rcat)
        known == ~IsIndeterminate(L.ty, L.val) /\ ~IsIndeterminate(R.ty, R.val)
        def == known /\ applyDefined(e.T, e.tag, ov, La, Ra)
        res == IF def THEN apply(e.T, e.tag, ov, La, Ra)
               ELSE [ret |-> Indeterminate(ResultType(e.T, e.tag), d.here),
                     a |-> La, b |-> Ra]
        \* an operand converted to T is one more element value constructed
        conv == (IF Lsame THEN 0 ELSE 1) + (IF Rsame THEN 0 ELSE 1)
        \* what each operand read when it was indexed, and what apply reads
        \* through the references it was given
        Lacc == Relabel("l", L.acc)
        Racc == Relabel("r", R.acc)
        Lpend == Relabel("l", L.pend)
        Rpend == Relabel("r", R.pend)
        Lcrash == {Relabel("l", s) : s \in L.crash}
        Rcrash == {Relabel("r", s) : s \in R.crash}
        \* the program may end while an operand is indexed, before or after
        \* the other one was, or inside apply: at an undefined read through a
        \* reference, or at the undefined element operation
        inApply ==
            (IF L.pend # {} /\ L.ub THEN {Lacc \cup Racc \cup Lpend} ELSE {})
            \cup (IF R.pend # {} /\ R.ub THEN {Lacc \cup Racc \cup Rpend} ELSE {})
            \cup (IF (L.pend # {} /\ L.ub) \/ (R.pend # {} /\ R.ub) \/ ~def
                  THEN {Lacc \cup Racc \cup Lpend \cup Rpend} ELSE {})
    IN  [val |-> res.ret, ty |-> ResultType(e.T, e.tag), cat |-> "prvalue",
         loc |-> Temporary,
         cs |-> WriteBack(Rloc, res.b, WriteBack(Lloc, res.a, R.cs)),
         ub |-> L.ub \/ R.ub \/ ~def, oob |-> L.oob \/ R.oob,
         \* apply reads each argument it takes by reference to an element once
         acc |-> Lacc \cup Racc \cup Lpend \cup Rpend,
         pend |-> {},
         crash |-> Lcrash \cup Rcrash
                   \cup {Lacc \cup s : s \in Rcrash} \cup {Racc \cup s : s \in Lcrash}
                   \cup inApply,
         tmp |-> L.tmp + R.tmp + conv + applyCopies(e.tag, ov),
         mv |-> L.mv + R.mv + applyMoves(e.tag, ov),
         call |-> [tag |-> e.tag, T |-> e.T, ov |-> ov, a |-> La, b |-> Ra,
                   ret |-> res.ret, def |-> def /\ ~L.ub /\ ~R.ub]]

\* operator[] of the node at a position: each operand is indexed, once, and
\* apply is called on the two
BinaryExpressionIndexAt(e, n, cs, g, path) ==
    CHOOSE res \in
        UNION {{BinaryExpressionApply(e, L, R, Draw(g, path)) :
                  R \in {OperandIndex(e.r, n, L.cs, g, path \o "r")}} :
               L \in {OperandIndex(e.l, n, cs, g, path \o "l")}} : TRUE

\* operator[] of the root node
BinaryExpressionIndex(e, n, cs, g) == BinaryExpressionIndexAt(e, n, cs, g, "")

\* one entry of the trace: the elements an evaluation read, then wrote
Step(reads, writes) == [reads |-> reads, writes |-> writes]

---------------------------------------------------------------------------
(* Typing: what the compiler accepts. *)

\* implicit conversions between element types that exist: what binds an
\* operand to a parameter of type T
Convertible(from, to) == from = to \/ {from, to} = {"bool", "uint"}

\* m_container[i] = v and m_container[i] += v compile: v converts to the
\* element type, or the element is a std::string and v converts to a char
Assignable(from, to) == Convertible(from, to) \/ (to = "text" /\ from # "text")

\* the element type supports the tag's operator (the remark of lines 179-180)
Supports(T, tag) ==
    CASE T = "uint" -> TRUE
      [] T = "bool" -> TRUE
      [] T = "text" -> tag \in {"ADD", "EQ", "NEQ", "LT", "LE", "GT", "GE"}
      [] OTHER      -> FALSE

\* the element type supports the compound assignment (std::vector<bool>'s
\* proxy has none)
CompoundSupported(T, aop) == T = "uint" \/ (T = "text" /\ aop = "+=")

\* the type of operand[index]
OperandType(e) == IF e.k = "node" THEN ResultType(e.T, e.tag) ELSE ctype[e.col]

\* the node type can be composed: the return type of its operator[],
\* decltype(BinaryOp::apply(le()[index], re()[index])), needs both operands
\* to convert to T
WellTyped(tag, T, l, r) ==
    /\ Convertible(OperandType(l), T)
    /\ Convertible(OperandType(r), T)

\* the bodies of apply, which are compiled when the expression is
\* materialized, need the operator of every node on its element type
RECURSIVE Instantiable(_)
Instantiable(e) ==
    IF e.k = "node"
    THEN Supports(e.T, e.tag) /\ Instantiable(e.l) /\ Instantiable(e.r)
    ELSE TRUE

---------------------------------------------------------------------------
(* The state machine. *)

\* the expression as written: l sym r
Written(sym, l, r) == [k |-> "op", sym |-> sym, l |-> l, r |-> r]
\* the expression as written: BinaryExpression<.., tag<T>, ..>(l, r)
WrittenCtor(tag, l, r) == [k |-> "ctor", tag |-> tag, l |-> l, r |-> r]

\* stands for the expression temporary built so far, used as a right operand
Temp == [k |-> "temp"]

NoStmt == [kind |-> "none", op |-> "", dest |-> ""]

\* no loop iteration yet
NoTemps == [copies |-> 0, moves |-> 0]

\* no use of operator [] by the caller
NoSub == [kind |-> "none"]

\* the binary operator symbols a caller may write
ContainerSymbols ==
    {"+", "-", "*", "/", "&", "|", "^", "<<", ">>",
     "==", "!=", "<", "<=", ">", ">=", "&&", "||"}

\* the operator symbols BinaryExpression declares (lines 58-83)
NodeSymbols ==
    {"+=", "-=", "*=", "/=", "|=", "&=", "^=", "<<=", ">>=",
     "+", "-", "*", "/", "|", "&", "^", "<<", ">>", "&&", "||",
     "==", "!=", "<", "<=", ">", ">="}

CompoundSymbols == {"+=", "-=", "*=", "/=", "&=", "|=", "^=", "<<=", ">>="}

\* the table with the tag of operator < pasted into operator <=
ContainerOperatorsPasted(sym) ==
    CASE sym = "+"  -> {"ADD"}
      [] sym = "-"  -> {"SUB"}
      [] sym = "*"  -> {"MUL"}
      [] sym = "/"  -> {"DIV"}
      [] sym = "&"  -> {"LAND", "LOR"}
      [] sym = "^"  -> {"LXOR"}
      [] sym = "<<" -> {"SHL"}
      [] sym = ">>" -> {"SHR"}
      [] sym = "==" -> {"EQ"}
      [] sym = "!=" -> {"NEQ"}
      [] sym = "<"  -> {"LT"}
      [] sym = "<=" -> {"LT"}
      [] sym = ">"  -> {"GT"}
      [] sym = ">=" -> {"GE"}
      [] OTHER      -> {}

\* the tags of the member templates Container declares for a symbol
\* (lines 258, 277, 296, 315, 334, 353, 372, 391, 410, 415-441)
ContainerOperators(sym) ==
    CASE sym = "+"  -> {"ADD"}
      [] sym = "-"  -> {"SUB"}
      [] sym = "*"  -> {"MUL"}
      [] sym = "/"  -> {"DIV"}
      [] sym = "&"  -> {"LAND", "LOR"}
      [] sym = "^"  -> {"LXOR"}
      [] sym = "<<" -> {"SHL"}
      [] sym = ">>" -> {"SHR"}
      [] sym = "==" -> {"EQ"}
      [] sym = "!=" -> {"NEQ"}
      [] sym = "<"  -> {"LT"}
      [] sym = "<=" -> {"LE"}
      [] sym = ">"  -> {"GT"}
      [] sym = ">=" -> {"GE"}
      [] OTHER      -> {}

\* an operator that evaluates the first element of its left operand when it
\* composes (say, to validate the operand)
ContainerOperatorEager(sym, x, r) ==
    LET right == IF r.k = "temp" THEN expr ELSE r
        wr == IF r.k = "temp" THEN src ELSE r
        cands == ContainerOperators(sym)
        tag == CHOOSE t \in cands : TRUE
    IN  /\ pc = "idle"
        /\ expr.k = (IF r.k = "temp" THEN "node" ELSE "none")
        /\ OpCount(expr) < MaxOps
        /\ src' = Written(sym, Wrapper(x), wr)
        /\ IF Cardinality(cands) = 1
           THEN /\ WellTyped(tag, ctype[x], Wrapper(x), right)
                /\ expr' = BinaryExpression(tag, ctype[x], Wrapper(x), right)
                /\ pc' = "idle"
           ELSE /\ expr' = IllFormed
                /\ pc' = "ill_formed"
        /\ trace' = Append(trace, Step({Access("read", x, 0, "")}, {}))
        /\ UNCHANGED <<cols, ctype, stmt, i, old, ub, oob, call, temps, sub>>

\* Container::operator sym (RightExpr&&) const, on the wrapper of x.  A call
\* compiles only when exactly one member template is declared for sym.
ContainerOperator(sym, x, r) ==
    LET right == IF r.k = "temp" THEN expr ELSE r
        wr == IF r.k = "temp" THEN src ELSE r
        cands == ContainerOperators(sym)
        tag == CHOOSE t \in cands : TRUE
    IN  /\ pc = "idle"
        /\ expr.k = (IF r.k = "temp" THEN "node" ELSE "none")
        /\ OpCount(expr) < MaxOps
        /\ src' = Written(sym, Wrapper(x), wr)
        /\ IF Cardinality(cands) = 1
           THEN /\ WellTyped(tag, ctype[x], Wrapper(x), right)
                /\ expr' = BinaryExpression(tag, ctype[x], Wrapper(x), right)
                /\ pc' = "idle"
           ELSE /\ expr' = IllFormed
                /\ pc' = "ill_formed"
        /\ UNCHANGED <<cols, ctype, stmt, i, old, ub, oob, call, trace, temps, sub>>

\* BinaryExpression::operator sym (RE&&) const: CREATE_BINARY_EXPRESSION_OPERATOR
\* gives the new node the BinaryOp of the node it is called on.
NodeOperator(sym, r) ==
    /\ pc = "idle"
    /\ expr.k = "node"
    /\ OpCount(expr) < MaxOps
    /\ sym \in NodeSymbols
    /\ WellTyped(expr.tag, expr.T, expr, r)
    /\ expr' = BinaryExpression(expr.tag, expr.T, expr, r)
    /\ src' = Written(sym, src, r)
    /\ UNCHANGED <<cols, ctype, stmt, pc, i, old, ub, oob, call, trace, temps, sub>>

\* BinaryExpression(LeftExpr l, RightExpr r): the public element wise constructor
BinaryExpressionCtor(tag, l, r) ==
    /\ pc = "idle"
    /\ expr.k = "none"
    /\ WellTyped(tag, ctype[l.col], l, r)
    /\ expr' = BinaryExpression(tag, ctype[l.col], l, r)
    /\ src' = WrittenCtor(tag, l, r)
    /\ UNCHANGED <<cols, ctype, stmt, pc, i, old, ub, oob, call, trace, temps, sub>>

\* the element type of the destination of a statement: that of the bound
\* collection, or, for a wrapper that is bound to none, that of the
\* expression (Container<COLLECTION> w(a + b) with a of type COLLECTION)
DestType(d) == IF d \in Names THEN ctype[d] ELSE expr.T

\* the statement m_container[i] op std::move(xi_expression[i]) compiles
BodyCompiles(aop, d) ==
    /\ Instantiable(expr)
    /\ Assignable(OperandType(expr), DestType(d))
    /\ aop = "=" \/ CompoundSupported(DestType(d), aop)

\* Container::operator =(T&& xi_expression) on the wrapper of d: loop entry
Assign(d) ==
    /\ pc = "idle"
    /\ expr.k = "node"
    /\ stmt' = [kind |-> "assign", op |-> "=", dest |-> d]
    /\ pc' = IF BodyCompiles("=", d) THEN "loop" ELSE "ill_formed"
    /\ i' = 0
    /\ old' = cols
    /\ UNCHANGED <<cols, ctype, src, expr, ub, oob, call, trace, temps, sub>>

\* Container::operator aop (T&& xi_expression) on the wrapper of d: loop entry
CompoundAssign(aop, d) ==
    /\ pc = "idle"
    /\ expr.k = "node"
    /\ aop \in CompoundSymbols
    /\ stmt' = [kind |-> "compound", op |-> aop, dest |-> d]
    /\ pc' = IF BodyCompiles(aop, d) THEN "loop" ELSE "ill_formed"
    /\ i' = 0
    /\ old' = cols
    /\ UNCHANGED <<cols, ctype, src, expr, ub, oob, call, trace, temps, sub>>

\* every scalar overload with the loop body of operator +=
ScalarCompoundAllPlus(aop, d, s) ==
    /\ pc = "idle"
    /\ expr.k = "none"
    /\ aop \in CompoundSymbols
    /\ CompoundSupported(ctype[d], aop)
    /\ stmt' = [kind |-> "scalar", op |-> "+=", dest |-> d]
    /\ src' = [k |-> "scalar", sym |-> aop, val |-> s]
    /\ pc' = "loop"
    /\ i' = 0
    /\ old' = cols
    /\ UNCHANGED <<cols, ctype, expr, ub, oob, call, trace, temps, sub>>

\* Container::operator aop (RightExpr&& xi_expression) with a value convertible
\* to value_type, on the wrapper of d: loop entry
ScalarCompound(aop, d, s) ==
    /\ pc = "idle"
    /\ expr.k = "none"
    /\ aop \in CompoundSymbols
    /\ CompoundSupported(ctype[d], aop)
    /\ stmt' = [kind |-> "scalar", op |-> aop, dest |-> d]
    /\ src' = [k |-> "scalar", sym |-> aop, val |-> s]
    /\ pc' = "loop"
    /\ i' = 0
    /\ old' = cols
    /\ UNCHANGED <<cols, ctype, expr, ub, oob, call, trace, temps, sub>>

\* Container(T&& xi_expression): the constructor has no collection to bind and
\* leaves the reference m_container uninitialized.  A conforming compiler
\* rejects it ("ill_formed"); a permissive build runs the loop on an
\* indeterminate reference: it crashes at once ("crashed"), or the reference
\* denotes an object of some size that is none of the caller's collections
\* ("elsewhere") or happens to denote one of them, and the loop runs on that.
Construct(outcome, size) ==
    /\ pc = "idle"
    /\ expr.k = "node"
    /\ old' = cols
    /\ i' = 0
    /\ CASE outcome = "ill_formed" ->
              /\ pc' = "ill_formed"
              /\ stmt' = [kind |-> "construct", op |-> "=", dest |-> "unbound"]
              /\ ub' = ub
         [] outcome = "crashed" ->
              /\ Instantiable(expr)
              /\ pc' = "crashed"
              /\ stmt' = [kind |-> "construct", op |-> "=", dest |-> "unbound"]
              /\ ub' = TRUE
         [] outcome = "elsewhere" ->
              /\ BodyCompiles("=", outcome)
              /\ pc' = "loop"
              /\ stmt' = [kind |-> "construct", op |-> "=", dest |-> outcome,
                          size |-> size]
              /\ ub' = TRUE
         [] outcome \in Names ->
              /\ BodyCompiles("=", outcome)
              /\ pc' = "loop"
              /\ stmt' = [kind |-> "construct", op |-> "=", dest |-> outcome]
              /\ ub' = TRUE
    /\ UNCHANGED <<cols, ctype, src, expr, oob, call, trace, temps, sub>>

\* the outcomes of a construction
Outcomes == {"ill_formed", "crashed", "elsewhere"} \cup Names

\* the sizes of the object the unbound reference denotes, when it is none of
\* the caller's collections
OutcomeSizes(outcome) == IF outcome = "elsewhere" THEN 0 .. MaxLen ELSE {0}

\* the caller reads w[n] on the wrapper w of x: Container::operator[].  An
\* access past the end is undefined: it reads an indeterminate value, or
\* the program crashes.
ContainerSubscript(x, n, g) ==
    /\ pc = "idle"
    /\ expr.k = "none"
    /\ LET r == ContainerIndex(x, n, cols, g)
       IN  /\ oob' = (oob \/ r.oob)
           /\ ub' = (ub \/ r.ub)
           /\ trace' = Append(trace, Step(Relabel("caller", r.acc \cup r.pend), {}))
           /\ \/ /\ sub' = [kind |-> "read", col |-> x, idx |-> n, val |-> r.val]
                 /\ cols' = r.cs
                 /\ pc' = "done"
              \/ /\ r.ub
                 /\ sub' = [kind |-> "none", col |-> x, idx |-> n]
                 /\ cols' = cols
                 /\ pc' = "crashed"
    /\ UNCHANGED <<ctype, src, expr, stmt, i, old, call, temps>>

\* the caller writes w[n] = v on the wrapper w of x.  operator[] returns a
\* prvalue: for a built-in element type the assignment needs an lvalue and is
\* rejected by the compiler; for a class type (std::string) it assigns to
\* the temporary copy, which is then discarded; the proxy of a
\* std::vector<bool> assigns to the element.  Past the end the access is
\* undefined.
ContainerSubscriptAssign(x, n, v, g) ==
    /\ pc = "idle"
    /\ expr.k = "none"
    /\ sub' = [kind |-> "assign", col |-> x, idx |-> n, val |-> v]
    /\ LET r == ContainerIndex(x, n, cols, g)
           written == IF r.cat = "proxy" THEN {Access("write", x, n, "caller")}
                      ELSE {}
       IN  IF ctype[x] = "uint"
           THEN /\ pc' = "ill_formed"
                /\ UNCHANGED <<cols, ub, oob, trace>>
           ELSE /\ ub' = (ub \/ r.ub)
                /\ oob' = (oob \/ r.oob)
                /\ trace' = Append(trace, Step(Relabel("caller", r.acc), written))
                /\ \/ /\ pc' = "done"
                      /\ cols' = WriteBack(r.loc, v, r.cs)
                   \/ /\ r.ub
                      /\ pc' = "crashed"
                      /\ cols' = cols
    /\ UNCHANGED <<ctype, src, expr, stmt, i, old, call, temps>>

\* the first value of a destination that is only written: value_type{}
Blank(Td) == IF Td = "bool" THEN FALSE ELSE IF Td = "text" THEN <<>> ELSE 0

\* a loop body that resets the destination element before it evaluates the
\* expression: m_container[i] = value_type{}; m_container[i] op expr[i]
RightHandSideCleared(g) ==
    IF stmt.kind = "scalar"
    THEN [val |-> src.val, ty |-> ctype[stmt.dest], cs |-> cols,
          ub |-> FALSE, oob |-> FALSE, call |-> NoCall,
          acc |-> {}, pend |-> {}, crash |-> {}, tmp |-> 1, mv |-> 0]
    ELSE BinaryExpressionIndex(
             expr, i,
             [cols EXCEPT ![stmt.dest][i + 1] = Blank(ctype[stmt.dest])],
             g)

\* what the loop body evaluates on the right of m_container[i] op ...
RightHandSide(g) ==
    IF stmt.kind = "scalar"
    THEN [val |-> src.val, ty |-> ctype[stmt.dest], cs |-> cols,
          ub |-> FALSE, oob |-> FALSE, call |-> NoCall,
          acc |-> {}, pend |-> {}, crash |-> {}, tmp |-> 1, mv |-> 0]
    ELSE BinaryExpressionIndex(expr, i, cols, g)

\* whether the element operation the loop body performs is defined
BodyDefined(rhs) ==
    IF stmt.kind \in {"assign", "construct"} THEN TRUE
    ELSE /\ ~IsIndeterminate(rhs.ty, rhs.val)
         /\ ~IsIndeterminate(ctype[stmt.dest], rhs.cs[stmt.dest][i + 1])
         /\ ElemDefined(ctype[stmt.dest], stmt.op, rhs.cs[stmt.dest][i + 1],
                        Convert(rhs.val, rhs.ty, ctype[stmt.dest]))

\* the loop body with = in place of the compound operator
BodyValueOverwrite(rhs, g) ==
    ConvertValue(rhs.val, rhs.ty, DestType(stmt.dest), Pick(g, ""))

\* the value the loop body leaves in m_container[i]
BodyValue(rhs, g) ==
    LET T == DestType(stmt.dest)
        v == ConvertValue(rhs.val, rhs.ty, T, Pick(g, ""))
    IN  IF stmt.kind \in {"assign", "construct"} THEN v
        ELSE IF BodyDefined(rhs)
             THEN ElemCompound(T, stmt.op, rhs.cs[stmt.dest][i + 1], v)
             ELSE Indeterminate(T, Pick(g, ""))

\* values an undefined read or operation of type T may produce
Garbage(T) == {Indeterminate(T, g) : g \in BOOLEAN}

\* the positions of operand e, which is converted to type T, at which an
\* indeterminate bool may arise: where a bool is read or computed, and where
\* a value is converted to bool
RECURSIVE BoolPositions(_, _, _)
BoolPositions(e, path, T) ==
    (IF OperandType(e) = "bool" \/ T = "bool" THEN {path} ELSE {})
    \cup (IF e.k = "node"
          THEN BoolPositions(e.l, path \o "l", e.T)
               \cup BoolPositions(e.r, path \o "r", e.T)
          ELSE {})

\* m_container.size() of the destination
DestSize ==
    IF stmt.dest \in Names THEN Len(cols[stmt.dest]) ELSE stmt.size

\* no indeterminate bool at any position
NoDraw == [p \in {} |-> FALSE]

\* the values the indeterminate bools of the next evaluation of the
\* expression may take, one for each position; there are none unless the
\* evaluation is undefined somewhere
GarbageNow ==
    IF expr.k = "node" /\ pc = "loop" /\ i < DestSize /\ RightHandSide(NoDraw).ub
    THEN [BoolPositions(expr, "", DestType(stmt.dest)) -> BOOLEAN]
    ELSE {NoDraw}

\* the collections after m_container[i] took value v: an object that is none
\* of the caller's collections is not part of the state
BodyWrite(cs, v) ==
    IF stmt.dest \in Names THEN [cs EXCEPT ![stmt.dest][i + 1] = v] ELSE cs

\* the access the loop body makes to m_container[i]: = writes it, op= reads
\* and writes it
BodyAccess ==
    Access(IF stmt.kind \in {"assign", "construct"} THEN "write" ELSE "update",
           stmt.dest, i, "dest")

\* an iteration that advances the loop variable twice: i += 2 for ++i
LoopStepSkip(g) ==
    /\ pc = "loop"
    /\ i < DestSize
    /\ LET rhs == RightHandSide(g)
       IN  /\ cols' = BodyWrite(rhs.cs, BodyValue(rhs, g))
           /\ ub' = (ub \/ rhs.ub \/ ~BodyDefined(rhs))
           /\ oob' = (oob \/ rhs.oob)
           /\ call' = rhs.call
           /\ trace' = Append(trace, Step(rhs.acc, {BodyAccess}))
           /\ temps' = [copies |-> rhs.tmp, moves |-> rhs.mv]
    /\ i' = i + 2
    /\ UNCHANGED <<ctype, src, expr, stmt, pc, old, sub>>

\* one iteration of for (i; i < m_container.size(); ++i) m_container[i] op rhs:
\* the right-hand side is evaluated, then the element is written
LoopStep(g) ==
    /\ pc = "loop"
    /\ i < DestSize
    /\ LET rhs == RightHandSide(g)
       IN  /\ cols' = BodyWrite(rhs.cs, BodyValue(rhs, g))
           /\ ub' = (ub \/ rhs.ub \/ ~BodyDefined(rhs))
           /\ oob' = (oob \/ rhs.oob)
           /\ call' = rhs.call
           /\ trace' = Append(trace, Step(rhs.acc, {BodyAccess}))
           /\ temps' = [copies |-> rhs.tmp, moves |-> rhs.mv]
    /\ i' = i + 1
    /\ UNCHANGED <<ctype, src, expr, stmt, pc, old, sub>>

\* the sets of accesses after which an iteration with undefined behaviour
\* may end the program: while the right-hand side is evaluated, or when
\* the evaluation is over
CrashReads(rhs) ==
    rhs.crash \cup (IF rhs.ub \/ ~BodyDefined(rhs) THEN {rhs.acc} ELSE {})

\* an access past the end of its collection
PastEnd(t) == t.col \in Names /\ t.idx >= Len(cols[t.col])

\* an iteration with undefined behaviour may end the program
LoopCrash(g) ==
    /\ pc = "loop"
    /\ i < DestSize
    /\ \E reads \in CrashReads(RightHandSide(g)) :
          /\ oob' = (oob \/ \E t \in reads : PastEnd(t))
          /\ trace' = Append(trace, Step(reads, {}))
    /\ ub' = TRUE
    /\ pc' = "crashed"
    /\ UNCHANGED <<cols, ctype, src, expr, stmt, i, old, call, temps, sub>>

\* the loop condition i < m_container.size() fails: return *this
LoopExit ==
    /\ pc = "loop"
    /\ i >= DestSize
    /\ pc' = "done"
    /\ UNCHANGED <<cols, ctype, src, expr, stmt, i, old, ub, oob, call, trace, temps, sub>>

Loop ==
    \/ \E g \in GarbageNow : LoopStep(g)
    \/ \E g \in GarbageNow : LoopCrash(g)
    \/ LoopExit

---------------------------------------------------------------------------
(* Initial states: the collections the caller has filled and wrapped. *)

\* initial element values of each type
Seeds(T) ==
    CASE T = "uint" -> (0 .. MaxVal) \cup {Modulus - 1}
      [] T = "text" -> {<<>>, <<120>>, <<121>>}    \* "", "x", "y"
      [] T = "bool" -> BOOLEAN

\* a collection of n elements: uint s, s+1, ..; text and bool s, s, ..
Run(T, s, n) == [k \in 1 .. n |-> IF T = "uint" THEN (s + k - 1) % Modulus ELSE s]

InitControl ==
    /\ src = None
    /\ expr = None
    /\ stmt = NoStmt
    /\ pc = "idle"
    /\ i = 0
    /\ old = cols
    /\ ub = FALSE
    /\ oob = FALSE
    /\ call = NoCall
    /\ trace = <<>>
    /\ temps = NoTemps
    /\ sub = NoSub

\* collections a, b, c of element type T and d of element type Td, of the
\* given sizes, filled from the given first values
InitCols(T, Td, na, nb, nc, nd, sa, sb, sc, sd) ==
    /\ ctype = [a |-> T, b |-> T, c |-> T, d |-> Td]
    /\ cols = [a |-> Run(T, sa, na), b |-> Run(T, sb, nb),
               c |-> Run(T, sc, nc), d |-> Run(Td, sd, nd)]
    /\ InitControl

\* four collections of one element type and one size
InitSame(T) ==
    \E n \in 0 .. MaxLen : \E sa, sb, sc, sd \in Seeds(T) :
        InitCols(T, T, n, n, n, n, sa, sb, sc, sd)

\* the scenario of the integers A, B, C and D
InitScenario ==
    /\ ctype = [x \in Names |-> "uint"]
    /\ cols = [a |-> <<1, 2, 3>>, b |-> <<10, 20, 30>>,
               c |-> <<100, 200, 300>>, d |-> <<0, 0, 0>>]
    /\ InitControl

Init == InitSame("uint") \/ InitSame("text") \/ InitScenario

\* a + b + c style chains of wrapped collections, assigned or added to d,
\* and every compound assignment of a scalar to d
Next ==
    \/ \E x \in {"a", "d"}, y \in {"b", "d"} : ContainerOperator("+", x, Wrapper(y))
    \/ \E y \in {"c", "d"} : NodeOperator("+", Wrapper(y))
    \/ Assign("d")
    \/ CompoundAssign("+=", "d")
    \/ \E aop \in CompoundSymbols : \E s \in Seeds(ctype["d"]) : ScalarCompound(aop, "d", s)
    \/ Loop

Spec == Init /\ [][Next]_vars

\* unsigned a, b, c of one size; d of that size takes unsigned or bool
InitChain ==
    \E Td \in {"uint", "bool"} : \E n \in 0 .. MaxLen : \E sa, sb, sc \in Seeds("uint") :
        InitCols("uint", Td, n, n, n, n, sa, sb, sc, Blank(Td))

\* every operator symbol, on a wrapper and on a node: a sym b, (a op b) sym c
\* and c sym (a op b), assigned to d
NextChain ==
    \/ \E sym \in ContainerSymbols : ContainerOperator(sym, "a", Wrapper("b"))
    \/ \E sym \in NodeSymbols : NodeOperator(sym, Wrapper("c"))
    \/ \E sym \in ContainerSymbols : ContainerOperator(sym, "c", Temp)
    \/ Assign("d")
    \/ Loop

SpecChain == InitChain /\ [][NextChain]_vars

\* a, b, d of one element type and one size (c is not used)
InitCtor ==
    \E T \in {"uint", "text"} : \E n \in 0 .. MaxLen : \E sa, sb, sd \in Seeds(T) :
        InitCols(T, T, n, n, n, n, sa, sb, Blank(T), sd)

\* nodes of every tag over a and b, each taken as a wrapper or as the
\* collection itself, so that every overload of apply is selected; assigned
\* or compound-assigned to d
NextCtor ==
    \/ \E tag \in Tags : \E l \in {Raw("a"), Wrapper("a")}, r \in {Raw("b"), Wrapper("b")} :
          BinaryExpressionCtor(tag, l, r)
    \/ Assign("d")
    \/ \E aop \in CompoundSymbols : CompoundAssign(aop, "d")
    \/ Loop

SpecCtor == InitCtor /\ [][NextCtor]_vars

RelationalSymbols == {"==", "!=", "<", "<=", ">", ">="}
RelationalTags == {"EQ", "NEQ", "LT", "LE", "GT", "GE"}

\* a, b of one element type and one size, d a collection of bool of that size
InitRel ==
    \E T \in {"uint", "text"} : \E n \in 0 .. MaxLen : \E sa, sb \in Seeds(T) : \E sd \in BOOLEAN :
        InitCols(T, "bool", n, n, n, n, sa, sb, Blank(T), sd)

\* a relational operator on a and b, through the wrapper's operators and
\* through nodes over wrappers or the collections themselves, assigned to d
NextRel ==
    \/ \E sym \in RelationalSymbols : \E r \in {Raw("b"), Wrapper("b")} :
          ContainerOperator(sym, "a", r)
    \/ \E tag \in RelationalTags : \E l \in {Raw("a"), Wrapper("a")}, r \in {Raw("b"), Wrapper("b")} :
          BinaryExpressionCtor(tag, l, r)
    \/ Assign("d")
    \/ \E g \in GarbageNow : LoopStep(g)
    \/ LoopExit

SpecRel == InitRel /\ [][NextRel]_vars

\* a, b, c, d of one element type and one size
InitConstruct ==
    \E T \in {"uint", "text"} : \E n \in 0 .. MaxLen : \E sa, sd \in Seeds(T) :
        InitCols(T, T, n, n, n, n, sa, sa, sa, sd)

\* a + b and a + b + c, from which a wrapper is constructed, with every
\* outcome of the construction
NextConstruct ==
    \/ ContainerOperator("+", "a", Wrapper("b"))
    \/ NodeOperator("+", Wrapper("c"))
    \/ \E o \in Outcomes : \E size \in OutcomeSizes(o) : Construct(o, size)
    \/ Loop

SpecConstruct == InitConstruct /\ [][NextConstruct]_vars

\* unsigned collections whose sizes differ: a and b have sizes of their own,
\* c has the size of d
InitSizes ==
    \E na, nb, nd \in 0 .. MaxLen : \E sa, sb \in Seeds("uint") :
        InitCols("uint", "uint", na, nb, nd, nd, sa, sb, 1, 0)

\* a + b and a + b + c, assigned or added to d
NextSizes ==
    \/ \E r \in {Raw("b"), Wrapper("b")} : ContainerOperator("+", "a", r)
    \/ NodeOperator("+", Wrapper("c"))
    \/ Assign("d")
    \/ CompoundAssign("+=", "d")
    \/ Loop

SpecSizes == InitSizes /\ [][NextSizes]_vars

\* unsigned collections: a has a size of its own, b and c have the size of d
InitPass ==
    \E na, nd \in 0 .. MaxLen : \E sa, sd \in Seeds("uint") :
        InitCols("uint", "uint", na, nd, nd, nd, sa, 1, 1, sd)

\* sums over wrappers and over the collections themselves, in which a
\* collection may occur twice and d may be an operand; assigned or added to
\* d; and d += s, d /= s with a scalar
NextPass ==
    \/ \E x \in {"a", "d"} : \E r \in {Raw("b"), Wrapper("b"), Wrapper("d")} :
          ContainerOperator("+", x, r)
    \/ \E r \in {Raw("c"), Wrapper("c"), Wrapper("a")} : NodeOperator("+", r)
    \/ Assign("d")
    \/ CompoundAssign("+=", "d")
    \/ \E aop \in {"+=", "/="} : \E s \in Seeds("uint") : ScalarCompound(aop, "d", s)
    \/ Loop

SpecPass == InitPass /\ [][NextPass]_vars

\* the same statements over collections of every size, in which a loop that
\* has started keeps running: the loop is an ordinary synchronous call,
\* which nothing suspends
InitLoop ==
    \E na, nd \in 0 .. MaxLen : InitCols("uint", "uint", na, nd, nd, nd, 1, 1, 1, 0)

SpecLoop == InitLoop /\ [][NextPass]_vars /\ WF_vars(Loop)

\* unsigned collections of one size, a starting at the smallest or at the
\* largest value
InitLazy ==
    \E n \in 0 .. MaxLen : \E sa \in {0, Modulus - 1} :
        InitCols("uint", "uint", n, n, n, n, sa, 1, 1, 0)

\* operator symbols of each family on a node
LazyNodeSymbols == {"+", "-", "<<", "&&", "<=", "+="}

\* chains built with every operator of the wrapper and with operators of
\* each family on a node, then left alone or materialized by a construction,
\* an assignment or a compound assignment
NextLazy ==
    \/ \E sym \in ContainerSymbols : ContainerOperator(sym, "a", Wrapper("b"))
    \/ \E sym \in LazyNodeSymbols : NodeOperator(sym, Wrapper("c"))
    \/ \E sym \in {"+", "<"} : ContainerOperator(sym, "c", Temp)
    \/ Assign("d")
    \/ CompoundAssign("+=", "d")
    \/ \E o \in Outcomes : \E size \in OutcomeSizes(o) : Construct(o, size)
    \/ Loop

SpecLazy == InitLazy /\ [][NextLazy]_vars

\* the caller indexes the wrappers of a and of d to read an element and to
\* assign one
NextIndex ==
    \/ \E x \in {"a", "d"} : \E n \in 0 .. MaxLen : \E g \in BOOLEAN :
          ContainerSubscript(x, n, g)
    \/ \E x \in {"a", "d"} : \E n \in 0 .. MaxLen :
       \E v \in Seeds(ctype[x]) : \E g \in BOOLEAN :
          ContainerSubscriptAssign(x, n, v, g)

\* four collections of one size, of unsigned, of text or of bool elements
InitIndex == InitSame("uint") \/ InitSame("text") \/ InitSame("bool")

SpecIndex == InitIndex /\ [][NextIndex]_vars

---------------------------------------------------------------------------
(* The elementwise meaning of an expression as written, which the claims    *)
(* compare the materialized collections with.                               *)

\* the element type of the leftmost collection of a written expression
RECURSIVE WrittenType(_)
WrittenType(w) == IF w.k \in {"wrap", "raw"} THEN ctype[w.col] ELSE WrittenType(w.l)

\* the operator a written node applies
WrittenOperator(w) == IF w.k = "ctor" THEN TagOperator(w.tag) ELSE w.sym

\* the written expression uses binary operators only, no compound assignment
RECURSIVE BinaryOnly(_)
BinaryOnly(w) ==
    \/ w.k \in {"wrap", "raw"}
    \/ /\ w.k \in {"op", "ctor"}
       /\ WrittenOperator(w) \in ContainerSymbols
       /\ BinaryOnly(w.l)
       /\ BinaryOnly(w.r)

RelSymbols == {"==", "!=", "<", "<=", ">", ">=", "&&", "||"}

\* l[n] op r[n] evaluated by a naive loop over the collections cs, operands
\* in the order written: the value and its type
RECURSIVE Naive(_, _, _)
Naive(w, n, cs) ==
    IF w.k \in {"wrap", "raw"}
    THEN [val |-> cs[w.col][n + 1], ty |-> ctype[w.col]]
    ELSE LET T == WrittenType(w)
             L == Naive(w.l, n, cs)
             R == Naive(w.r, n, cs)
             op == WrittenOperator(w)
         IN  [val |-> ElemBinary(T, op, Convert(L.val, L.ty, T), Convert(R.val, R.ty, T)),
              ty |-> IF op \in RelSymbols THEN "bool" ELSE T]

\* every operation of the naive evaluation is defined
RECURSIVE NaiveDefined(_, _, _)
NaiveDefined(w, n, cs) ==
    \/ w.k \in {"wrap", "raw"}
    \/ /\ NaiveDefined(w.l, n, cs)
       /\ NaiveDefined(w.r, n, cs)
       /\ LET T == WrittenType(w)
              L == Naive(w.l, n, cs)
              R == Naive(w.r, n, cs)
          IN  ElemDefined(T, WrittenOperator(w), Convert(L.val, L.ty, T),
                          Convert(R.val, R.ty, T))

\* the naive value converted to the element type of collection d
NaiveInto(d, w, n, cs) ==
    LET v == Naive(w, n, cs) IN Convert(v.val, v.ty, ctype[d])

\* the indices of collection d
Indices(d) == 0 .. (Len(old[d]) - 1)

\* every collection but d is as it was when the statement started
OthersUnchanged(d) == \A x \in Names \ {d} : cols[x] = old[x]

---------------------------------------------------------------------------
(* Claims checked under Spec. *)

\* C1: after D += A + B (+ C) on wrapped collections of one size, every D[i]
\* is D_old[i] + A[i] + B[i] (+ C[i]), operands combined left to right, as
\* the naive loop d[i] += a[i] + b[i] + c[i] leaves it.
C1_CompoundFusion ==
    (pc = "done" /\ stmt.kind = "compound" /\ stmt.op = "+=")
    => /\ Len(cols[stmt.dest]) = Len(old[stmt.dest])
       /\ \A n \in Indices(stmt.dest) :
            cols[stmt.dest][n + 1] =
                ElemBinary(ctype[stmt.dest], "+", old[stmt.dest][n + 1],
                           NaiveInto(stmt.dest, src, n, old))

\* the integer scenario: D = [0,0,0] += A + B + C gives [111, 222, 333]
C1_Witness ==
    /\ pc = "done"
    /\ stmt.kind = "compound"
    /\ ctype["d"] = "uint"
    /\ src = Written("+", Written("+", Wrapper("a"), Wrapper("b")), Wrapper("c"))
    /\ old = [a |-> <<1, 2, 3>>, b |-> <<10, 20, 30>>,
              c |-> <<100, 200, 300>>, d |-> <<0, 0, 0>>]
    /\ cols["d"] = <<111, 222, 333>>

\* C2: after D = A + B + C on wrapped collections of one size, every D[i] is
\* A[i] + B[i] + C[i] as a naive loop computes it from the operands; what D
\* held before enters only where D is itself an operand.
C2_AssignFusion ==
    (pc = "done" /\ stmt.kind = "assign")
    => /\ Len(cols[stmt.dest]) = Len(old[stmt.dest])
       /\ \A n \in Indices(stmt.dest) :
            cols[stmt.dest][n + 1] = NaiveInto(stmt.dest, src, n, old)

\* text: D = A + B + C with A = x.., B = y.., C = x.. over a D that held y..
C2_Witness ==
    /\ pc = "done"
    /\ stmt.kind = "assign"
    /\ ctype["d"] = "text"
    /\ src = Written("+", Written("+", Wrapper("a"), Wrapper("b")), Wrapper("c"))
    /\ old["d"] = <<<<121>>, <<121>>>>
    /\ cols["d"] = <<<<120, 121, 120>>, <<120, 121, 120>>>>

\* C9: after D op= s with a scalar s, every D[i] is D_old[i] op s, no other
\* collection has changed and D has the size it had (s # 0 for /=, and
\* s < Width for the shifts: otherwise the element operation is undefined).
C9_ScalarCompound ==
    (pc = "done" /\ stmt.kind = "scalar" /\ ~ub)
    => /\ Len(cols[stmt.dest]) = Len(old[stmt.dest])
       /\ OthersUnchanged(stmt.dest)
       /\ \A n \in Indices(stmt.dest) :
            /\ ElemDefined(ctype[stmt.dest], src.sym, old[stmt.dest][n + 1], src.val)
            /\ cols[stmt.dest][n + 1] =
                  ElemBinary(ctype[stmt.dest], BinaryOf(src.sym),
                             old[stmt.dest][n + 1], src.val)

\* D = [1023, 0] -= 1 wraps around to [1022, 1023]
C9_Witness ==
    /\ pc = "done"
    /\ stmt.kind = "scalar"
    /\ src.sym = "-="
    /\ ~ub
    /\ ctype["d"] = "uint"
    /\ src.val = 1
    /\ old["d"] = <<Modulus - 1, 0>>
    /\ cols["d"] = <<Modulus - 2, Modulus - 1>>

\* the accesses to the destination made by the evaluations after
\* evaluation k
LaterOnDest(k) ==
    UNION {{t \in trace[m].reads \cup trace[m].writes : t.col = stmt.dest} :
           m \in {m \in DOMAIN trace : m > k}}

\* C16: when the destination is itself a leaf of the expression (D = D + B,
\* D += D + B, D = A + D + D), every D[i] is what a naive loop computes from
\* the values the collections held before the statement, and no element of
\* D is accessed again once the loop has written it.
C16_AliasingSafe ==
    (/\ pc = "done"
     /\ stmt.kind \in {"assign", "compound"}
     /\ stmt.dest \in Leaves(expr))
    => /\ \A n \in Indices(stmt.dest) :
            cols[stmt.dest][n + 1] =
                IF stmt.kind = "assign"
                THEN NaiveInto(stmt.dest, src, n, old)
                ELSE ElemBinary(ctype[stmt.dest], BinaryOf(stmt.op),
                                old[stmt.dest][n + 1],
                                NaiveInto(stmt.dest, src, n, old))
       /\ \A k \in DOMAIN trace : \A w \in trace[k].writes :
            \A t \in LaterOnDest(k) : t.idx > w.idx

\* D += D + B with D = [1, 2] and B = [1, 2] gives [3, 6]
C16_Witness ==
    /\ pc = "done"
    /\ stmt.kind = "compound"
    /\ ctype["d"] = "uint"
    /\ src = Written("+", Wrapper("d"), Wrapper("b"))
    /\ old["d"] = <<1, 2>>
    /\ old["b"] = <<1, 2>>
    /\ cols["d"] = <<3, 6>>

\* C12: an iteration that evaluates A + B + C over three wrapped collections
\* constructs at most one element value, counting the copies made to read
\* the leaves and those made by apply (moves are not counted).
C12_OneTemporaryPerIndex ==
    (/\ pc \in {"loop", "done"}
     /\ i > 0
     /\ stmt.kind \in {"assign", "compound"}
     /\ src.k = "op"
     /\ src.l.k = "op"
     /\ src.l.l.k = "wrap")
    => temps.copies <= 1

---------------------------------------------------------------------------
(* Claims checked under SpecConstruct. *)

\* C6: when the construction of a wrapper from an expression is over, the
\* wrapper is bound to a well-defined collection that holds the value of the
\* expression at every index.
C6_ConstructMaterializes ==
    (stmt.kind = "construct" /\ pc # "loop")
    => /\ pc = "done"
       /\ ~ub
       /\ stmt.dest \in Names
       /\ \A n \in Indices(stmt.dest) :
            cols[stmt.dest][n + 1] = NaiveInto(stmt.dest, src, n, old)

---------------------------------------------------------------------------
(* Claims checked under SpecChain. *)

\* C3: when a node is composed with a further operand through an operator,
\* the chain evaluates elementwise as written: after D = (A op1 B) op2 C,
\* every D[i] is (A[i] op1 B[i]) op2 C[i].
C3_ChainAsWritten ==
    (/\ pc = "done"
     /\ stmt.kind = "assign"
     /\ src.k = "op"
     /\ src.l.k = "op"
     /\ BinaryOnly(src)
     /\ ~ub
     /\ \A n \in Indices(stmt.dest) : NaiveDefined(src, n, old))
    => \A n \in Indices(stmt.dest) :
          cols[stmt.dest][n + 1] = NaiveInto(stmt.dest, src, n, old)

\* the operator symbols of the wrapper that the claim lists
WrapperSymbols ==
    {"+", "-", "*", "/", "&", "|", "^", "<<", ">>", "==", "!=", "<", "<=", ">", ">="}

\* C4: A op B on a wrapper, for each of its fifteen binary operators, builds
\* a node whose tag is that of op, and D = A op B leaves A[i] op B[i] in
\* every D[i].
C4_WrapperOperatorTags ==
    (src.k = "op" /\ src.l.k = "wrap" /\ src.sym \in WrapperSymbols)
    => /\ expr.k = "node"
       /\ TagOperator(expr.tag) = src.sym
       /\ (/\ pc = "done"
           /\ ~ub
           /\ \A n \in Indices(stmt.dest) : NaiveDefined(src, n, old))
          => \A n \in Indices(stmt.dest) :
                cols[stmt.dest][n + 1] = NaiveInto(stmt.dest, src, n, old)

---------------------------------------------------------------------------
(* Claims checked under SpecCtor. *)

\* C5: whichever of the four overloads of apply the root node calls for an
\* arithmetic or bitwise tag, the value it returns is a op b, operands in
\* that order.
C5_ApplyOverloadsAgree ==
    (call.tag \in ArithTags /\ call.def)
    => call.ret = ElemBinary(call.T, TagOperator(call.tag), call.a, call.b)

\* C7: materialization changes no collection but its destination, and
\* indexing the node at any index leaves every collection as it is (so a
\* second evaluation at that index sees the same operands).
C7_OperandsUnchanged ==
    /\ (stmt.kind \in {"assign", "compound"} /\ ~ub) => OthersUnchanged(stmt.dest)
    /\ (expr.k = "node" /\ Instantiable(expr) /\ pc \in {"idle", "loop"})
       => \A n \in 0 .. (Len(cols["a"]) - 1) : \A g \in GarbageNow :
             LET r == BinaryExpressionIndex(expr, n, cols, g)
             IN  ~r.ub => r.cs = cols

\* D -= A - B has run over wrappers, whose values the (T&&, T&&) overload
\* of apply modified, and A and B are as they were
C7_Witness ==
    /\ pc = "done"
    /\ ~ub
    /\ stmt.kind = "compound"
    /\ ctype["a"] = "uint"
    /\ src = WrittenCtor("SUB", Wrapper("a"), Wrapper("b"))
    /\ call.tag = "SUB"
    /\ call.ov = "rr"
    /\ Len(cols["a"]) = 2
    /\ call.ret # call.a
    /\ cols["a"] = old["a"]
    /\ cols["b"] = old["b"]
    /\ cols["d"] # old["d"]

---------------------------------------------------------------------------
(* Claims checked under SpecRel. *)

\* C8: after D = (A rel B) for rel one of == != < <= > >=, D a collection
\* of bool, every D[i] is A[i] rel B[i], whichever overload of apply the
\* operands select.
C8_RelationalChain ==
    (pc = "done" /\ stmt.kind = "assign")
    => /\ WrittenOperator(src) \in RelationalSymbols
       /\ \A n \in Indices(stmt.dest) :
            cols[stmt.dest][n + 1] =
                ElemBinary(ctype["a"], WrittenOperator(src),
                           old["a"][n + 1], old["b"][n + 1])

\* D = (A <= B) with A = [0, 1] and B = [0, 1] through the wrapper's operator
C8_Witness ==
    /\ pc = "done"
    /\ ctype["a"] = "uint"
    /\ src = Written("<=", Wrapper("a"), Wrapper("b"))
    /\ old["a"] = <<0, 1>>
    /\ old["b"] = <<0, 1>>
    /\ old["d"] = <<FALSE, FALSE>>
    /\ cols["d"] = <<TRUE, TRUE>>

---------------------------------------------------------------------------
(* Claims checked under SpecSizes. *)

\* the operand collections of the statement that are shorter than n
ShorterThan(n) == {x \in Leaves(expr) : Len(old[x]) < n}

\* C10: the loop is bounded by the destination's size alone: once it has
\* run i iterations, an operand has been accessed past its end exactly when
\* some operand is shorter than i, and a loop that ends normally has run
\* size(D) iterations, however short the operands are.
C10_SizesUnchecked ==
    (stmt.kind \in {"assign", "compound"})
    => /\ pc \in {"loop", "done"} => (oob <=> ShorterThan(i) # {})
       /\ pc = "done" =>
            /\ i = Len(old[stmt.dest])
            /\ oob <=> ShorterThan(Len(old[stmt.dest])) # {}
       /\ pc = "crashed" => ShorterThan(i + 1) # {}

\* D of size 2 = A + B with B empty: the loop ran to the end, reading B[0], B[1]
C10_Witness ==
    /\ pc = "done"
    /\ stmt.kind = "assign"
    /\ Len(old["d"]) = 2
    /\ Len(old["a"]) = 2
    /\ Len(old["b"]) = 0
    /\ i = 2
    /\ oob

---------------------------------------------------------------------------
(* Claims checked under SpecPass. *)

\* the leaves of an expression: position in the tree and collection
RECURSIVE LeafPaths(_)
LeafPaths(e) ==
    IF e.k = "node"
    THEN {[leaf |-> "l" \o p.leaf, col |-> p.col] : p \in LeafPaths(e.l)}
         \cup {[leaf |-> "r" \o p.leaf, col |-> p.col] : p \in LeafPaths(e.r)}
    ELSE {[leaf |-> "", col |-> e.col]}

\* the number of leaves of the expression that are collection x
Occurrences(x) == Cardinality({p \in LeafPaths(expr) : p.col = x})

\* how often the accesses of a set are made, all together
RECURSIVE Times(_)
Times(S) ==
    IF S = {} THEN 0
    ELSE LET t == CHOOSE t \in S : TRUE IN t.times + Times(S \ {t})

\* the reads of index n among the first k entries of the trace whose field
\* key ("leaf" or "col") is v
RECURSIVE ReadsUpTo(_, _, _, _)
ReadsUpTo(k, key, v, n) ==
    IF k = 0 THEN 0
    ELSE Times({t \in trace[k].reads : t.kind = "read" /\ t[key] = v /\ t.idx = n})
         + ReadsUpTo(k - 1, key, v, n)

\* the reads of index n made so far by the leaf at a position, and the reads
\* of element n of collection x made so far by the leaves
ReadsBy(leaf, n) == ReadsUpTo(Len(trace), "leaf", leaf, n)
ReadsOf(x, n) == ReadsUpTo(Len(trace), "col", x, n)

\* C11: during D = expr or D op= expr every leaf of the expression reads the
\* element at index n of its collection at most once (exactly once when the
\* iteration for n has run, and then from its own collection), so that
\* element n of a collection is read by as many leaves as the collection
\* occurs in the expression: once, when it occurs once.
C11_SinglePass ==
    (stmt.kind \in {"assign", "compound"} /\ pc \in {"loop", "done", "crashed"})
    => \A n \in Indices(stmt.dest) :
          /\ \A p \in LeafPaths(expr) :
                /\ ReadsBy(p.leaf, n) <= 1
                /\ n < i => ReadsBy(p.leaf, n) = 1
                /\ \A k \in DOMAIN trace : \A t \in trace[k].reads :
                      (t.kind = "read" /\ t.leaf = p.leaf) => t.col = p.col
          /\ \A x \in Names : ReadsOf(x, n) <= Occurrences(x)

\* D += A + B + C over two elements, B a wrapper and C the collection itself:
\* every element of A, B and C has been read once
C11_Witness ==
    /\ pc = "done"
    /\ ~ub
    /\ stmt.kind = "compound"
    /\ src = Written("+", Written("+", Wrapper("a"), Wrapper("b")), Raw("c"))
    /\ Len(old["d"]) = 2
    /\ \A x \in {"a", "b", "c"} : \A n \in {0, 1} : ReadsOf(x, n) = 1

---------------------------------------------------------------------------
(* Claims checked under SpecLoop. *)

\* the entries of the trace in which the loop body has written the
\* destination
DestAccess(t) == t.writes # {}

\* every access of an entry of the trace
Touched(t) == t.reads \cup t.writes

\* what holds of a loop that has run i iterations
LoopSequential ==
    (stmt.kind \in {"assign", "compound", "scalar"} /\ pc \in {"loop", "done", "crashed"})
    => LET d == stmt.dest
           size == Len(old[d])
           W == SelectSeq(trace, DestAccess)
       IN  /\ Len(cols[d]) = size
           /\ i <= size
           /\ Len(W) = i
           /\ \A k \in 1 .. Len(W) :
                 \A w \in W[k].writes : w.leaf = "dest" /\ w.col = d /\ w.idx = k - 1
           /\ \A k \in DOMAIN trace : \A t \in Touched(trace[k]) : t.idx < size
           /\ \A k, m \in DOMAIN trace :
                 k < m => \A t \in Touched(trace[k]), u \in Touched(trace[m]) :
                             t.idx < u.idx
           /\ \A k \in DOMAIN trace : \A t, u \in Touched(trace[k]) : t.idx = u.idx
           /\ pc = "done" => i = size
           /\ size = 0 => trace = <<>>

\* C15: a materialization loop visits the indices 0, 1, .., size(D)-1 of the
\* destination in ascending order and writes each once, accesses no index
\* >= size(D) of any collection, leaves size(D) as it is, and ends: after
\* size(D) iterations, or in undefined behaviour (an operand shorter than D,
\* a division by zero).  An empty destination is not iterated at all.
C15_LoopTerminates ==
    /\ []LoopSequential
    /\ (pc = "loop") ~> (pc = "done" \/ ub)

\* D += A + B + C has run to the end over destinations of two elements
C15_Witness ==
    /\ pc = "done"
    /\ ~ub
    /\ stmt.kind = "compound"
    /\ OpCount(expr) = 2
    /\ Len(old["d"]) = 2
    /\ i = 2
    /\ Len(SelectSeq(trace, DestAccess)) = 2

---------------------------------------------------------------------------
(* Claims checked under SpecLazy. *)

\* C13: composing an expression accesses no element: as long as no
\* materializing statement has started, nothing has been read or written and
\* every collection is as it was; every step that reads or writes an element
\* is an iteration of the loop of a construction, an assignment or a
\* compound assignment that has started.
C13_LazyComposition ==
    /\ [](stmt.kind = "none" => (trace = <<>> /\ cols = old))
    /\ [][(trace' # trace \/ cols' # cols) => (pc = "loop" /\ stmt.kind # "none")]_vars

\* (A - B) <= C has been composed over collections of two elements and not
\* materialized
C13_Witness ==
    /\ pc = "idle"
    /\ stmt.kind = "none"
    /\ src = Written("<=", Written("-", Wrapper("a"), Wrapper("b")), Wrapper("c"))
    /\ Len(cols["a"]) = 2
    /\ trace = <<>>
    /\ cols = old

---------------------------------------------------------------------------
(* Claims checked under SpecIndex. *)

\* C14: for n < size, w[n] on a wrapper denotes element n of the bound
\* collection: reading it gives the collection's value at n, and after
\* w[n] = v the collection holds v at n.
C14_IndexForwards ==
    /\ (sub.kind = "read" /\ sub.idx < Len(old[sub.col]))
       => sub.val = old[sub.col][sub.idx + 1]
    /\ (sub.kind = "assign" /\ sub.idx < Len(old[sub.col]))
       => /\ pc = "done"
          /\ cols[sub.col][sub.idx + 1] = sub.val

====
